---- MODULE Spec2Model ----
(***************************************************************************)
(* Model of azure-functions/transcribe-audio/function_app.py: the HTTP     *)
(* handler transcribe_audio, the continuous-recognition wait loop of       *)
(* transcribe_with_speech_sdk with its three callbacks, and the rule-based *)
(* extract_actions.  A Python str is a sequence of one-character strings.  *)
(***************************************************************************)
EXTENDS Integers, Sequences, FiniteSets, TLC

\* ------------------------------------------------------------------ bounds
MaxFragments == 2
MaxEvents == 2

\* ------------------------------------------------- characters and classes
UpperLetters == <<"A","B","C","D","E","F","G","H","I","J","K",
      "L","M","N","O","P","Q","R","S","T","U","V","W","X","Y","Z">>
LowerLetters == <<"a","b","c","d","e","f","g","h","i","j","k",
      "l","m","n","o","p","q","r","s","t","u","v","w","x","y","z">>
Upper == {UpperLetters[k] : k \in 1..26}
Lower == {LowerLetters[k] : k \in 1..26}
Alpha == Upper \cup Lower
Digits == {"0","1","2","3","4","5","6","7","8","9"}
\* whitespace recognised by str.strip() and by \s
WS == {" ", "\t", "\n"}
\* [a-zA-Z0-9._%+-]
LocalChars == Alpha \cup Digits \cup {".", "_", "%", "+", "-"}
\* [a-zA-Z0-9.-]
DomainChars == Alpha \cup Digits \cup {".", "-"}

None == <<>>

Min(S) == CHOOSE x \in S : \A y \in S : x <= y
Max(S) == CHOOSE x \in S : \A y \in S : x >= y

\* ------------------------------------------------------ str primitives
LowerOf == [c \in Upper |-> LowerLetters[CHOOSE k \in 1..26 : UpperLetters[k] = c]]

\* str.str_lower(), one character
lowerChar(c) == IF c \in Upper THEN LowerOf[c] ELSE c

\* str.str_lower()
str_lower(s) == [k \in 1..Len(s) |-> lowerChar(s[k])]

\* s[a:b) in 1-based positions, b exclusive
Slice(s, a, b) == SubSeq(s, a, b - 1)

\* w occurs in s at position k
PrefixAt(s, k, w) == k + Len(w) - 1 <= Len(s) /\ Slice(s, k, k + Len(w)) = w

\* "w in s"
Contains(s, w) == \E k \in 1..(Len(s) - Len(w) + 1) : PrefixAt(s, k, w)

\* str.strip()
RECURSIVE lstrip(_)
lstrip(s) == IF s # <<>> /\ Head(s) \in WS THEN lstrip(Tail(s)) ELSE s

RECURSIVE rstrip(_)
rstrip(s) == IF s # <<>> /\ s[Len(s)] \in WS THEN rstrip(Slice(s, 1, Len(s))) ELSE s

strip(s) == rstrip(lstrip(s))

\* transcript.replace('!', '.').replace('?', '.')
replaceTerminators(s) == [k \in 1..Len(s) |-> IF s[k] \in {"!", "?"} THEN "." ELSE s[k]]

\* str.split('.'): n separators give n+1 pieces, empty pieces included
RECURSIVE splitFrom(_, _, _)
splitFrom(s, sep, k) ==
  LET I == {m \in k..Len(s) : s[m] = sep}
  IN IF I = {} THEN <<Slice(s, k, Len(s) + 1)>>
     ELSE <<Slice(s, k, Min(I))>> \o splitFrom(s, sep, Min(I) + 1)

split(s, sep) == splitFrom(s, sep, 1)

\* a splitter that leaves '.' inside the sentences
splitSentencesOnBang(t) == split(t, "!")

\* sentences = transcript.replace('!', '.').replace('?', '.').split('.')
splitSentences(t) == split(replaceTerminators(t), ".")

\* s[:n]
Take(s, n) == IF Len(s) <= n THEN s ELSE Slice(s, 1, n + 1)

\* ' '.join(parts)
RECURSIVE join(_)
join(parts) ==
  IF parts = <<>> THEN <<>>
  ELSE IF Len(parts) = 1 THEN parts[1]
  ELSE parts[1] \o <<" ">> \o join(Tail(parts))

\* --------------------------------------------------------- regex engine
\* F(v), with v evaluated once
Let(v, F(_)) == CHOOSE r \in {F(x) : x \in {v}} : TRUE

\* end of the maximal run of characters of class Cls starting at k
RECURSIVE RunEnd(_, _, _)
RunEnd(s, k, Cls) == IF k > Len(s) \/ s[k] \notin Cls THEN k ELSE RunEnd(s, k + 1, Cls)

\* re.search: the match at the leftmost start position at which MatchAt succeeds
Search(s, MatchAt(_, _)) ==
  LET I == {k \in 1..Len(s) : MatchAt(s, k) # None}
  IN IF I = {} THEN None ELSE Let(Min(I), LAMBDA k : MatchAt(s, k))

\* ([a-zA-Z0-9._%+-]+@[a-zA-Z0-9.-]+\.[a-zA-Z]{2,}) anchored at k:
\* the span <<first, end>> of group 1, or None
EmailMatchAt(s, k) ==
  Let(RunEnd(s, k, LocalChars), LAMBDA p :
    IF p = k \/ p > Len(s) \/ s[p] # "@" THEN None
    ELSE Let(RunEnd(s, p + 1, DomainChars), LAMBDA q :
           Let({e \in (p + 2)..(q - 1) : s[e] = "." /\ RunEnd(s, e + 1, Alpha) >= e + 3},
               LAMBDA Es : IF Es = {} THEN None
                           ELSE Let(Max(Es) + 1, LAMBDA t : <<k, RunEnd(s, t, Alpha)>>))))

\* [A-Z][a-z]+ anchored at k: its end, or 0
WordEnd(s, k) ==
  IF k <= Len(s) /\ s[k] \in Upper
  THEN Let(RunEnd(s, k + 1, Lower), LAMBDA e : IF e > k + 1 THEN e ELSE 0)
  ELSE 0

\* [A-Z][a-z]+(?:\s+[A-Z][a-z]+)? anchored at k: its end, or 0
NameEnd(s, k) ==
  Let(WordEnd(s, k), LAMBDA e1 :
    IF e1 = 0 THEN 0
    ELSE Let(RunEnd(s, e1, WS), LAMBDA w :
           IF w = e1 THEN e1
           ELSE Let(WordEnd(s, w), LAMBDA e2 : IF e2 # 0 THEN e2 ELSE e1)))

\* \s+([A-Z][a-z]+(?:\s+[A-Z][a-z]+)?) anchored at k: span of group 1, or None
SpaceName(s, k) ==
  Let(RunEnd(s, k, WS), LAMBDA w :
    IF w = k THEN None
    ELSE Let(NameEnd(s, w), LAMBDA e : IF e # 0 THEN <<w, e>> ELSE None))

callKeywords == <<<<"c","a","l","l">>, <<"p","h","o","n","e">>, <<"r","i","n","g">>>>

\* (?:call|phone|ring)\s+(NAME) anchored at k, case-sensitive: the first
\* alternative after which the rest of the pattern matches
CallMatchAt(s, k) ==
  LET K == {a \in 1..Len(callKeywords) :
              PrefixAt(s, k, callKeywords[a])
              /\ SpaceName(s, k + Len(callKeywords[a])) # None}
  IN IF K = {} THEN None
     ELSE Let(k + Len(callKeywords[Min(K)]), LAMBDA e : SpaceName(s, e))

\* the alternatives of meet(?:ing)?|schedule in the order the engine tries them
meetingKeywords == <<<<"m","e","e","t","i","n","g">>, <<"m","e",
      "e","t">>, <<"s","c","h","e","d","u","l","e">>>>

\* \s+(?:with\s+)?(NAME) anchored at k: span of group 1, or None
SpaceWithName(s, k) ==
  Let(RunEnd(s, k, WS), LAMBDA w :
    IF w = k THEN None
    ELSE Let(IF PrefixAt(s, w, <<"w","i","t","h">>) THEN SpaceName(s, w + 4) ELSE None, LAMBDA m :
           IF m # None THEN m
           ELSE Let(NameEnd(s, w), LAMBDA e : IF e # 0 THEN <<w, e>> ELSE None)))

\* (?:meet(?:ing)?|schedule)\s+(?:with\s+)?(NAME) anchored at k, case-sensitive
MeetingMatchAt(s, k) ==
  LET K == {a \in 1..Len(meetingKeywords) :
              PrefixAt(s, k, meetingKeywords[a])
              /\ SpaceWithName(s, k + Len(meetingKeywords[a])) # None}
  IN IF K = {} THEN None
     ELSE Let(k + Len(meetingKeywords[Min(K)]), LAMBDA e : SpaceWithName(s, e))

taskTriggers == <<<<"n","e","e","d"," ","t","o">>, <<"s","h","o",
      "u","l","d">>, <<"m","u","s","t">>, <<"h","a","v","e"," ","t","o">>>>

\* the {10,60} window of the task pattern
TaskMin == 10
TaskMax == 60
\* task[:50]
TitleMax == 50

\* $ without re.MULTILINE: the end, or just before a final newline
AtEnd(s, k) == k = Len(s) + 1 \/ (k = Len(s) /\ s[k] = "\n")

\* \s+(.{10,60}?)(?:\.|$) anchored at k: \s+ is greedy, the group is lazy and
\* '.' does not match a newline.  Span of group 1, or None
SpaceTask(s, k) ==
  LET Ok(st, n) == /\ st + n - 1 <= Len(s)
                   /\ \A j \in st..(st + n - 1) : s[j] # "\n"
                   /\ (AtEnd(s, st + n) \/ (st + n <= Len(s) /\ s[st + n] = "."))
  IN Let({st \in (k + 1)..RunEnd(s, k, WS) : \E n \in TaskMin..TaskMax : Ok(st, n)},
         LAMBDA St :
           IF St = {} THEN None
           ELSE Let(Max(St), LAMBDA st :
                  Let(Min({m \in TaskMin..TaskMax : Ok(st, m)}),
                      LAMBDA n : <<st, st + n>>)))

\* (?:need to|should|must|have to)\s+(.{10,60}?)(?:\.|$) anchored at k, re.IGNORECASE
TaskMatchAt(s, k) ==
  LET K == {a \in 1..Len(taskTriggers) :
              k + Len(taskTriggers[a]) - 1 <= Len(s)
              /\ str_lower(Slice(s, k, k + Len(taskTriggers[a]))) = taskTriggers[a]
              /\ SpaceTask(s, k + Len(taskTriggers[a])) # None}
  IN IF K = {} THEN None
     ELSE Let(k + Len(taskTriggers[Min(K)]), LAMBDA e : SpaceTask(s, e))

Group(s, m) == Slice(s, m[1], m[2])

\* ------------------------------------------------ extract_actions: rules
callStoplist == {<<"t","h","e">>, <<"a">>, <<"m","y">>, <<"o",
      "u","r">>, <<"t","h","e","m">>, <<"b","a","c","k">>}
meetingStoplist == {<<"t","h","e">>, <<"a">>, <<"m","y">>, <<"o","u","r">>}

Action(type, title, sentence, metadata) ==
  [action_type |-> type, title |-> title, description |-> sentence, metadata |-> metadata]

\* if 'email' in lower or 'send' in lower
EmailGate(low) ==
  Contains(low, <<"e","m","a","i","l">>) \/ Contains(low, <<"s","e","n","d">>)

\* the Email block: the appended action, or None when the block falls through
EmailRule(sentence, low) ==
  IF EmailGate(low)
  THEN Let(Search(sentence, EmailMatchAt), LAMBDA m :
         IF m # None
         THEN Action("email", <<"E","m","a","i","l"," ">> \o Group(sentence, m), sentence,
                     {<<"recipient", Group(sentence, m)>>})
         ELSE None)
  ELSE None

\* if 'call' in lower or 'phone' in lower or 'ring' in lower
CallGate(low) ==
  \/ Contains(low, <<"c","a","l","l">>)
  \/ Contains(low, <<"p","h","o","n","e">>)
  \/ Contains(low, <<"r","i","n","g">>)

\* the Call block without the generic-word check
CallRuleNoStoplist(sentence, low) ==
  IF CallGate(low)
  THEN Let(Search(sentence, CallMatchAt), LAMBDA m :
         IF m # None
         THEN Action("call", <<"C","a","l","l"," ">> \o Group(sentence, m), sentence,
                     {<<"contact", Group(sentence, m)>>})
         ELSE None)
  ELSE None

\* the Call block
CallRule(sentence, low) ==
  IF CallGate(low)
  THEN Let(Search(sentence, CallMatchAt), LAMBDA m :
         IF m # None /\ str_lower(Group(sentence, m)) \notin callStoplist
         THEN Action("call", <<"C","a","l","l"," ">> \o Group(sentence, m), sentence,
                     {<<"contact", Group(sentence, m)>>})
         ELSE None)
  ELSE None

\* if 'meeting' in lower or 'meet with' in lower or 'schedule' in lower
MeetingGate(low) ==
  \/ Contains(low, <<"m","e","e","t","i","n","g">>)
  \/ Contains(low, <<"m","e","e","t"," ","w","i","t","h">>)
  \/ Contains(low, <<"s","c","h","e","d","u","l","e">>)

\* the Meeting block
MeetingRule(sentence, low) ==
  IF MeetingGate(low)
  THEN Let(Search(sentence, MeetingMatchAt), LAMBDA m :
         IF m # None /\ str_lower(Group(sentence, m)) \notin meetingStoplist
         THEN Action("meeting", <<"M","e","e","t","i","n","g",
      " ","w","i","t","h"," ">> \o Group(sentence, m), sentence,
                     {<<"contact", Group(sentence, m)>>})
         ELSE None)
  ELSE None

\* if any(x in lower for x in ['need to', 'should', 'must', 'have to'])
TaskGate(low) ==
  \E t \in 1..Len(taskTriggers) : Contains(low, taskTriggers[t])

\* the Task block without the [:50] cut
TaskRuleNoCut(sentence, low) ==
  IF TaskGate(low)
  THEN Let(Search(sentence, TaskMatchAt), LAMBDA m :
         IF m # None
         THEN Action("task", strip(Group(sentence, m)), sentence, {})
         ELSE None)
  ELSE None

\* the Task block
TaskRule(sentence, low) ==
  IF TaskGate(low)
  THEN Let(Search(sentence, TaskMatchAt), LAMBDA m :
         IF m # None
         THEN Action("task", Take(strip(Group(sentence, m)), TitleMax), sentence, {})
         ELSE None)
  ELSE None

\* the blocks with Meeting tried before Call
MatchSentenceMeetingFirst(sentence, low) ==
  IF sentence = <<>> THEN <<>>
  ELSE Let(EmailRule(sentence, low), LAMBDA e : IF e # None THEN <<e>> ELSE
       Let(MeetingRule(sentence, low), LAMBDA m : IF m # None THEN <<m>> ELSE
       Let(CallRule(sentence, low), LAMBDA c : IF c # None THEN <<c>> ELSE
       Let(TaskRule(sentence, low), LAMBDA t : IF t # None THEN <<t>> ELSE <<>>))))

\* the body of "for sentence in sentences" after the strip: what it appends;
\* a block that appends ends the iteration (continue)
MatchSentence(sentence, low) ==
  IF sentence = <<>> THEN <<>>
  ELSE Let(EmailRule(sentence, low), LAMBDA e : IF e # None THEN <<e>> ELSE
       Let(CallRule(sentence, low), LAMBDA c : IF c # None THEN <<c>> ELSE
       Let(MeetingRule(sentence, low), LAMBDA m : IF m # None THEN <<m>> ELSE
       Let(TaskRule(sentence, low), LAMBDA t : IF t # None THEN <<t>> ELSE <<>>))))

\* a case-sensitive key
DedupKeyExact(action) == action.title

\* key = action['title'].str_lower()
DedupKey(action) == str_lower(action.title)

\* ------------------------------------------------------------ inputs
Fragments == {
  <<"P","l","e","a","s","e"," ","e","m","a","i","l"," ","j","o",
      "h","n",".","d","o","e","@","e","x","a","m","p","l","e",
      ".","c","o","m"," ","a","b","o","u","t"," ","t","h","e"," ","r","e","p","o","r","t",".">>,
  <<"C","a","l","l"," ","S","a","r","a","h"," ","J","o","h","n",
      "s","o","n"," ","t","o","m","o","r","r","o","w"," ","m","o","r","n","i","n","g",".">>,
  <<"C","a","l","l"," ","t","h","e"," ","d","o","c","t","o","r",
      " ","t","o","m","o","r","r","o","w",".">>,
  <<" ","c","a","l","l"," ","B","o","b"," ","S","m","i","t","h",".">>,
  <<"w","e"," ","m","u","s","t"," ","C","a","l","l"," ","B","o","b"," ","S","m","i","t","h","!">>,
  <<"W","e"," ","M","U","S","T"," ","c","a","l","l"," ","b","o","b"," ","s","m","i","t","h","?">>,
  <<"c","a","l","l"," ","T","h","e"," ","b","o","s","s"," ","a",
      "n","d"," ","s","c","h","e","d","u","l","e"," ","a"," ",
      "m","e","e","t","i","n","g"," ","w","i","t","h"," ","A","n","n"," ","L","e","e","."," ">>,
  <<"r","i","n","g"," ","B","o","b"," ","S","m","i","t","h"," ",
      "a","n","d"," ","s","c","h","e","d","u","l","e"," ","A","n","n"," ","L","e","e","!">>,
  <<" ","a","n","d"," ","s","c","h","e","d","u","l","e"," ","A","n","n"," ","L","e","e">>,
  <<"I"," ","n","e","e","d"," ","t","o"," ","f","i","n","i","s",
      "h"," ","t","h","e"," ","q","u","a","r","t","e","r","l",
      "y"," ","b","u","d","g","e","t"," ","r","e","p","o","r",
      "t"," ","b","y"," ","F","r","i","d","a","y",".">>,
  <<"y","o","u"," ","s","h","o","u","l","d"," ","g","o">>,
  <<"W","e"," ","m","u","s","t"," ","g","o","."," ">>,
  <<" ","a","n","d"," ","w","e"," ","h","a","v","e"," ","t","o",
      " ","r","e","v","i","e","w"," ","e","v","e","r","y"," ",
      "o","p","e","n"," ","t","i","c","k","e","t"," ","w","i",
      "t","h"," ","t","h","e"," ","w","h","o","l","e"," ","t",
      "e","a","m"," ","f","i","r","s","t"," ","t","h","i","n","g">>,
  <<" ","a","n","d"," ","t","h","e","n"," ","c","a","r","e","f",
      "u","l","l","y"," ","r","e","v","i","e","w"," ","e","v",
      "e","r","y"," ","s","i","n","g","l","e"," ","o","p","e",
      "n"," ","t","i","c","k","e","t"," ","w","i","t","h"," ","t","h","e"," ","t","e","a","m">>,
  <<"w","e"," ","m","u","s","t"," "," ","s","t","a","y"," ","c","a","l","m",".">>,
  <<"s","c","h","e","d","u","l","e"," ","M","y"," ","r","e","v",
      "i","e","w"," ","a","n","d"," ","w","e"," ","s","h","o",
      "u","l","d"," ","g","o"," ","h","o","m","e"," ","e","a","r","l","y","."," ">>,
  <<" ","\t","\n">>,
  <<"?","!"," ",".">>
}

RECURSIVE Concats(_)
Concats(n) ==
  IF n = 0 THEN {<<>>}
  ELSE Concats(n - 1) \cup {t \o f : t \in Concats(n - 1), f \in Fragments}

Transcripts == Concats(MaxFragments)

\* evt.result.text of the recognizer's events
SegmentTexts == {<<" ","c","a","l","l"," ","B","o","b"," ","S",
      "m","i","t","h",".">>, <<"w","e"," ","m","u","s","t"," ",
      "C","a","l","l"," ","B","o","b"," ","S","m","i","t","h","!">>, <<>>}

\* the events the recognizer hands to handle_result
ResultEvents ==
  [reason : {"RecognizedSpeech"}, text : SegmentTexts] \cup [reason : {"NoMatch"}, text : {<<>>}]

\* evt.cancellation_details.reason
CancellationReasons == {"Error", "EndOfStream"}

\* ------------------------------------------------------------- state
VARIABLES
  \* extract_actions
  transcript, pc, sentences, i, sentence, lower, actions, seen, unique_actions, j, result,
  \* the request and the environment of transcribe_audio
  req_body, download_status, SPEECH_KEY, SUPABASE,
  \* transcribe_audio and transcribe_with_speech_sdk
  hpc, recognizer, all_results, done, delivered, response,
  \* the recordings row and the actions table
  recording, actions_table

extractVars ==
  <<transcript, pc, sentences, i, sentence, lower, actions, seen, unique_actions, j, result>>
envVars == <<req_body, download_status, SPEECH_KEY, SUPABASE>>
httpVars == <<hpc, recognizer, all_results, done, delivered, response, recording, actions_table>>
vars == <<transcript, pc, sentences, i, sentence, lower, actions, seen, unique_actions, j, result,
          req_body, download_status, SPEECH_KEY, SUPABASE,
          hpc, recognizer, all_results, done, delivered, response, recording, actions_table>>

NoResponse == [status_code |-> 0, body |-> "none"]

\* extract_actions called directly on a transcript
Init ==
  /\ transcript \in Transcripts
  /\ pc = "start"
  /\ sentences = <<>>
  /\ i = 1
  /\ sentence = <<>>
  /\ lower = <<>>
  /\ actions = <<>>
  /\ seen = {}
  /\ unique_actions = <<>>
  /\ j = 1
  /\ result = <<>>
  /\ req_body = [recording_id |-> "", audio_url |-> ""]
  /\ download_status = 200
  /\ SPEECH_KEY = FALSE
  /\ SUPABASE = FALSE
  /\ hpc = "none"
  /\ recognizer = "idle"
  /\ all_results = <<>>
  /\ done = FALSE
  /\ delivered = <<>>
  /\ response = NoResponse
  /\ recording = [transcription |-> None, transcription_status |-> "pending"]
  /\ actions_table = <<>>

\* if not transcript: return []
ReturnEmpty ==
  /\ pc = "start"
  /\ transcript = <<>>
  /\ result' = <<>>
  /\ pc' = "done"
  /\ UNCHANGED <<transcript, sentences, i, sentence, lower, actions, seen, unique_actions, j>>
  /\ UNCHANGED envVars
  /\ UNCHANGED httpVars

\* actions = []; sentences = ...split('.')
SplitTranscript ==
  /\ pc = "start"
  /\ transcript # <<>>
  /\ actions' = <<>>
  /\ sentences' = splitSentences(transcript)
  /\ i' = 1
  /\ pc' = "sentences"
  /\ UNCHANGED <<transcript, sentence, lower, seen, unique_actions, j, result>>
  /\ UNCHANGED envVars
  /\ UNCHANGED httpVars

\* an iteration that does not move to the next sentence
ProcessSentenceNoAdvance ==
  /\ pc = "sentences"
  /\ i <= Len(sentences)
  /\ UNCHANGED <<sentence, lower, actions, i>>
  /\ UNCHANGED <<transcript, pc, sentences, seen, unique_actions, j, result>>
  /\ UNCHANGED envVars
  /\ UNCHANGED httpVars

\* one iteration of "for sentence in sentences"
ProcessSentence ==
  /\ pc = "sentences"
  /\ i <= Len(sentences)
  /\ sentence' = strip(sentences[i])
  /\ lower' = str_lower(sentence')
  /\ actions' = actions \o MatchSentence(sentence', lower')
  /\ i' = i + 1
  /\ UNCHANGED <<transcript, pc, sentences, seen, unique_actions, j, result>>
  /\ UNCHANGED envVars
  /\ UNCHANGED httpVars

\* seen = set(); unique_actions = []
StartDedup ==
  /\ pc = "sentences"
  /\ i > Len(sentences)
  /\ seen' = {}
  /\ unique_actions' = <<>>
  /\ j' = 1
  /\ pc' = "dedup"
  /\ UNCHANGED <<transcript, sentences, i, sentence, lower, actions, result>>
  /\ UNCHANGED envVars
  /\ UNCHANGED httpVars

\* one iteration of "for action in actions"
DedupStep ==
  /\ pc = "dedup"
  /\ j <= Len(actions)
  /\ IF DedupKey(actions[j]) \notin seen
     THEN /\ seen' = seen \cup {DedupKey(actions[j])}
          /\ unique_actions' = Append(unique_actions, actions[j])
     ELSE UNCHANGED <<seen, unique_actions>>
  /\ j' = j + 1
  /\ UNCHANGED <<transcript, pc, sentences, i, sentence, lower, actions, result>>
  /\ UNCHANGED envVars
  /\ UNCHANGED httpVars

\* return unique_actions
ReturnUnique ==
  /\ pc = "dedup"
  /\ j > Len(actions)
  /\ result' = unique_actions
  /\ pc' = "done"
  /\ UNCHANGED <<transcript, sentences, i, sentence, lower, actions, seen, unique_actions, j>>
  /\ UNCHANGED envVars
  /\ UNCHANGED httpVars

\* the body of extract_actions for a non-empty transcript
ExtractBody ==
  \/ SplitTranscript
  \/ ProcessSentence
  \/ StartDedup
  \/ DedupStep
  \/ ReturnUnique

Next ==
  \/ ReturnEmpty
  \/ ExtractBody

Spec == Init /\ [][Next]_vars

\* the for loops run to completion
FairSpec == Spec /\ WF_vars(Next)

\* ------------------------------------------------------ transcribe_audio
\* the except clause: 500 with {"error": str(e)}
ErrorResponse == [status_code |-> 500, body |-> "error"]

HttpInit ==
  /\ transcript = <<>>
  /\ pc = "idle"
  /\ sentences = <<>>
  /\ i = 1
  /\ sentence = <<>>
  /\ lower = <<>>
  /\ actions = <<>>
  /\ seen = {}
  /\ unique_actions = <<>>
  /\ j = 1
  /\ result = <<>>
  /\ req_body \in [recording_id : {"", "rec-1"}, audio_url : {"", "https://audio"}]
  /\ download_status \in {200, 404}
  /\ SPEECH_KEY \in BOOLEAN
  /\ SUPABASE \in BOOLEAN
  /\ hpc = "entry"
  /\ recognizer = "idle"
  /\ all_results = <<>>
  /\ done = FALSE
  /\ delivered = <<>>
  /\ response = NoResponse
  /\ recording = [transcription |-> None, transcription_status |-> "pending"]
  /\ actions_table = <<>>

\* if not recording_id or not audio_url: 400
RejectRequest ==
  /\ hpc = "entry"
  /\ (req_body.recording_id = "" \/ req_body.audio_url = "")
  /\ response' = [status_code |-> 400, body |-> "error"]
  /\ hpc' = "responded"
  /\ UNCHANGED extractVars
  /\ UNCHANGED envVars
  /\ UNCHANGED <<recognizer, all_results, done, delivered, recording, actions_table>>

\* requests.get(audio_url); a status other than 200 raises
DownloadAudio ==
  /\ hpc = "entry"
  /\ req_body.recording_id # ""
  /\ req_body.audio_url # ""
  /\ IF download_status # 200
     THEN response' = ErrorResponse /\ hpc' = "responded"
     ELSE response' = response /\ hpc' = "transcribe"
  /\ UNCHANGED extractVars
  /\ UNCHANGED envVars
  /\ UNCHANGED <<recognizer, all_results, done, delivered, recording, actions_table>>

\* transcribe_with_speech_sdk up to start_continuous_recognition()
StartRecognition ==
  /\ hpc = "transcribe"
  /\ IF ~SPEECH_KEY
     THEN /\ response' = ErrorResponse
          /\ hpc' = "responded"
          /\ UNCHANGED <<recognizer, all_results, done>>
     ELSE /\ all_results' = <<>>
          /\ done' = FALSE
          /\ recognizer' = "running"
          /\ hpc' = "wait"
          /\ response' = response
  /\ UNCHANGED extractVars
  /\ UNCHANGED envVars
  /\ UNCHANGED <<delivered, recording, actions_table>>

\* the recognized callback
handle_result ==
  /\ recognizer = "running"
  /\ Len(delivered) < MaxEvents
  /\ \E evt \in ResultEvents :
       /\ all_results' = IF evt.reason = "RecognizedSpeech"
                         THEN Append(all_results, evt.text)
                         ELSE all_results
       /\ delivered' = Append(delivered, [kind |-> "recognized", reason |-> evt.reason,
                                           text |-> evt.text])
  /\ UNCHANGED extractVars
  /\ UNCHANGED envVars
  /\ UNCHANGED <<hpc, recognizer, done, response, recording, actions_table>>

\* the session_stopped callback
handle_session_stopped ==
  /\ recognizer = "running"
  /\ done' = TRUE
  /\ recognizer' = "ended"
  /\ delivered' = Append(delivered, [kind |-> "session_stopped", reason |-> "none",
                                      text |-> None])
  /\ UNCHANGED extractVars
  /\ UNCHANGED envVars
  /\ UNCHANGED <<hpc, all_results, response, recording, actions_table>>

\* the canceled callback: logs the reason and the error details, sets done
handle_canceled ==
  /\ recognizer = "running"
  /\ \E reason \in CancellationReasons :
       delivered' = Append(delivered, [kind |-> "canceled", reason |-> reason, text |-> None])
  /\ done' = TRUE
  /\ recognizer' = "ended"
  /\ UNCHANGED extractVars
  /\ UNCHANGED envVars
  /\ UNCHANGED <<hpc, all_results, response, recording, actions_table>>

\* leaving the loop without looking at done
ExitWaitNoFlag ==
  /\ hpc = "wait"
  /\ hpc' = "stop"
  /\ UNCHANGED extractVars
  /\ UNCHANGED envVars
  /\ UNCHANGED <<recognizer, all_results, done, delivered, response, recording, actions_table>>

\* while not done: time.sleep(0.5)
ExitWait ==
  /\ hpc = "wait"
  /\ done
  /\ hpc' = "stop"
  /\ UNCHANGED extractVars
  /\ UNCHANGED envVars
  /\ UNCHANGED <<recognizer, all_results, done, delivered, response, recording, actions_table>>

\* stop_continuous_recognition(); transcript = ' '.join(all_results); return transcript
JoinResults ==
  /\ hpc = "stop"
  /\ transcript' = join(all_results)
  /\ hpc' = "update"
  /\ UNCHANGED <<pc, sentences, i, sentence, lower, actions, seen, unique_actions, j, result>>
  /\ UNCHANGED envVars
  /\ UNCHANGED <<recognizer, all_results, done, delivered, response, recording, actions_table>>

SuccessResponse == [status_code |-> 200, body |-> "success"]

\* the recordings update, then extract_actions(transcript) when there is a transcript
UpdateRecording ==
  /\ hpc = "update"
  /\ IF SUPABASE
     THEN /\ recording' = [transcription |-> transcript, transcription_status |-> "completed"]
          /\ IF transcript # <<>>
             THEN pc' = "start" /\ hpc' = "extract" /\ response' = response
             ELSE pc' = pc /\ hpc' = "responded" /\ response' = SuccessResponse
     ELSE /\ recording' = recording
          /\ pc' = pc
          /\ hpc' = "responded"
          /\ response' = SuccessResponse
  /\ UNCHANGED <<transcript, sentences, i, sentence, lower, actions, seen, unique_actions, j, result>>
  /\ UNCHANGED envVars
  /\ UNCHANGED <<recognizer, all_results, done, delivered, actions_table>>

\* the row inserted for an action
Row(action) ==
  [action_type |-> action.action_type, title |-> action.title,
   description |-> action.description, metadata |-> action.metadata,
   recording_id |-> req_body.recording_id, user_id |-> "user-1", status |-> "pending"]

\* if actions: insert them; then the 200 response
InsertActions ==
  /\ hpc = "extract"
  /\ pc = "done"
  /\ actions_table' = IF result # <<>>
                      THEN actions_table \o [k \in 1..Len(result) |-> Row(result[k])]
                      ELSE actions_table
  /\ response' = SuccessResponse
  /\ hpc' = "responded"
  /\ UNCHANGED extractVars
  /\ UNCHANGED envVars
  /\ UNCHANGED <<recognizer, all_results, done, delivered, recording>>

HttpNext ==
  \/ RejectRequest
  \/ DownloadAudio
  \/ StartRecognition
  \/ handle_result
  \/ handle_session_stopped
  \/ handle_canceled
  \/ ExitWait
  \/ JoinResults
  \/ UpdateRecording
  \/ ExtractBody
  \/ InsertActions

HttpSpec == HttpInit /\ [][HttpNext]_vars

TypeOK == pc \in {"idle", "start", "sentences", "dedup", "done"}

\* ------------------------------------------------------------ properties
Example1 == <<"P","l","e","a","s","e"," ","e","m","a","i","l",
      " ","j","o","h","n",".","d","o","e","@","e","x","a","m",
      "p","l","e",".","c","o","m"," ","a","b","o","u","t"," ",
      "t","h","e"," ","r","e","p","o","r","t",".">>
Example2 == <<"C","a","l","l"," ","S","a","r","a","h"," ","J",
      "o","h","n","s","o","n"," ","t","o","m","o","r","r","o",
      "w"," ","m","o","r","n","i","n","g",".">>
StoplistExample == <<"C","a","l","l"," ","t","h","e"," ","d","o",
      "c","t","o","r"," ","t","o","m","o","r","r","o","w",".">>

Terminators == {".", "!", "?"}

\* C1: a one-sentence transcript with the keyword "email" and an address
\* yields exactly one Email action titled "Email " + address with metadata
\* {recipient: address}; stated on the spec's Example 1.
C1_EmailExample ==
  (pc = "done" /\ transcript = Example1) =>
    /\ Len(result) = 1
    /\ result[1].action_type = "email"
    /\ result[1].title = <<"E","m","a","i","l"," ","j","o","h",
      "n",".","d","o","e","@","e","x","a","m","p","l","e",".","c","o","m">>
    /\ result[1].metadata = {<<"recipient", <<"j","o","h","n",
      ".","d","o","e","@","e","x","a","m","p","l","e",".","c","o","m">>>>}

\* C2: a sentence-initial "Call" followed by a capitalized name yields one
\* Call action titled "Call " + name with metadata {contact: name}; stated on
\* the spec's Example 2.
C2_CallExample ==
  (pc = "done" /\ transcript = Example2) =>
    /\ Len(result) = 1
    /\ result[1].action_type = "call"
    /\ result[1].title = <<"C","a","l","l"," ","S","a","r","a","h"," ","J","o","h","n","s","o","n">>
    /\ result[1].metadata = {<<"contact", <<"S","a","r","a","h"," ","J","o","h","n","s","o","n">>>>}

\* the candidates whose lowercased title no earlier candidate carries
RECURSIVE FirstOccurrencesFrom(_, _)
FirstOccurrencesFrom(cands, k) ==
  IF k > Len(cands) THEN <<>>
  ELSE (IF \E m \in 1..(k - 1) : str_lower(cands[m].title) = str_lower(cands[k].title)
        THEN <<>> ELSE <<cands[k]>>) \o FirstOccurrencesFrom(cands, k + 1)

\* C3: the returned list has no two titles equal after lowercasing and is the
\* sub-sequence of the candidates that keeps, for each lowercased title, the
\* first candidate carrying it, in order.
C3_DedupFirstOccurrence ==
  pc = "done" =>
    /\ \A m, k \in 1..Len(result) :
         str_lower(result[m].title) = str_lower(result[k].title) => m = k
    /\ result = FirstOccurrencesFrom(actions, 1)

\* two candidates whose titles differ only in letter case were collapsed
C3_Witness ==
  /\ pc = "done"
  /\ \E m, k \in 1..Len(actions) :
       /\ m < k
       /\ actions[m].title # actions[k].title
       /\ str_lower(actions[m].title) = str_lower(actions[k].title)
  /\ Len(result) < Len(actions)

\* rule r of the fixed order Email, Call, Meeting, Task has its gate met and
\* extracts an accepted pattern from sentence s
Succeeds(r, s) ==
  CASE r = 1 -> EmailGate(str_lower(s)) /\ Search(s, EmailMatchAt) # None
    [] r = 2 -> /\ CallGate(str_lower(s))
                /\ Search(s, CallMatchAt) # None
                /\ str_lower(Group(s, Search(s, CallMatchAt))) \notin callStoplist
    [] r = 3 -> /\ MeetingGate(str_lower(s))
                /\ Search(s, MeetingMatchAt) # None
                /\ str_lower(Group(s, Search(s, MeetingMatchAt))) \notin meetingStoplist
    [] r = 4 -> TaskGate(str_lower(s)) /\ Search(s, TaskMatchAt) # None

RuleType == <<"email", "call", "meeting", "task">>

\* the sentence the k-th loop iteration offers to the rules
Offered(k) == strip(sentences[k])

\* the types of the candidates the first n sentences must contribute
RECURSIVE ExpectedTypes(_)
ExpectedTypes(n) ==
  IF n = 0 THEN <<>>
  ELSE LET R == {r \in 1..4 : Succeeds(r, Offered(n))}
       IN ExpectedTypes(n - 1) \o
          (IF R = {} THEN <<>> ELSE <<<<RuleType[Min(R)], Offered(n)>>>>)

\* C4: each sentence contributes at most one candidate, and it comes from the
\* first rule in the order Email, Call, Meeting, Task whose gate is met and
\* whose extraction succeeds; a rule that declines passes the sentence on.
C4_FirstRuleWins ==
  pc \in {"sentences", "dedup", "done"} =>
    /\ Len(actions) <= i - 1
    /\ [k \in 1..Len(actions) |-> <<actions[k].action_type, actions[k].description>>]
         = ExpectedTypes(i - 1)

\* a sentence on which both Call and Meeting would succeed became a Call, and
\* one on which Call declined became a Meeting
C4_Witness ==
  /\ pc = "done"
  /\ \E k \in 1..Len(sentences) :
       /\ Succeeds(2, Offered(k)) /\ Succeeds(3, Offered(k))
       /\ \E m \in 1..Len(result) :
            result[m].description = Offered(k) /\ result[m].action_type = "call"
  /\ \E k \in 1..Len(sentences) :
       /\ CallGate(str_lower(Offered(k))) /\ ~Succeeds(2, Offered(k)) /\ Succeeds(3, Offered(k))
       /\ \E m \in 1..Len(result) :
            result[m].description = Offered(k) /\ result[m].action_type = "meeting"

\* only whitespace and sentence terminators
Blank(t) == \A k \in 1..Len(t) : t[k] \in WS \cup Terminators

\* C5: extract_actions terminates on every input, and returns the empty list
\* for the empty string and for a string of whitespace and terminators only.
C5_TotalAndEmptyOnBlank ==
  /\ <>(pc = "done")
  /\ [](pc = "done" /\ Blank(transcript) => result = <<>>)

\* a non-empty blank transcript went through the sentence loop
C5_Witness ==
  /\ pc = "done"
  /\ transcript # <<>>
  /\ Blank(transcript)
  /\ Len(sentences) >= 2
  /\ i > Len(sentences)

\* a canceled event with reason Error has been delivered
CanceledWithError ==
  \E k \in 1..Len(delivered) :
    delivered[k].kind = "canceled" /\ delivered[k].reason = "Error"

\* C6: after a cancellation with reason Error the request is a processing
\* failure: no transcript is returned as if recognition had succeeded, the
\* handler answers 500 with an error body, and the recording is not stored as
\* completed.
C6_ErrorCancellationFails ==
  CanceledWithError =>
    /\ hpc \notin {"update", "extract"}
    /\ recording.transcription_status # "completed"
    /\ (hpc = "responded" => response = ErrorResponse)

\* a terminal event has been delivered
TerminalDelivered ==
  \E k \in 1..Len(delivered) : delivered[k].kind \in {"session_stopped", "canceled"}

\* the texts of the recognized-speech events among the first n delivered events
RECURSIVE RecognizedTexts(_)
RecognizedTexts(n) ==
  IF n = 0 THEN <<>>
  ELSE RecognizedTexts(n - 1) \o
       (IF delivered[n].kind = "recognized" /\ delivered[n].reason = "RecognizedSpeech"
        THEN <<delivered[n].text>> ELSE <<>>)

\* the position of the first terminal event
FirstTerminal ==
  Min({k \in 1..Len(delivered) : delivered[k].kind \in {"session_stopped", "canceled"}})

\* C7: the caller does not leave the wait, join or return before a terminal
\* event has been delivered; the transcript is the space-joined recognized
\* segments delivered before that event, in arrival order; extract_actions
\* only runs on the transcript of an ended session.
C7_JoinAfterTerminal ==
  /\ hpc \in {"stop", "update", "extract"} => TerminalDelivered
  /\ hpc \in {"update", "extract"} =>
       transcript = join(RecognizedTexts(FirstTerminal - 1))
  /\ pc # "idle" => TerminalDelivered /\ recognizer = "ended"
  /\ (hpc = "responded" /\ response = SuccessResponse) =>
       /\ TerminalDelivered
       /\ transcript = join(RecognizedTexts(FirstTerminal - 1))

\* two segments and an ignored event were delivered, then the terminal event,
\* and extract_actions runs on the joined transcript
C7_Witness ==
  /\ hpc = "extract"
  /\ pc = "done"
  /\ Len(all_results) >= 2
  /\ Len(delivered) >= 3
  /\ transcript = all_results[1] \o <<" ">> \o all_results[2]

\* the span of the name the Call pattern captures in s is stoplisted
CallCapturesStopword(s) ==
  /\ CallGate(str_lower(s))
  /\ Search(s, CallMatchAt) # None
  /\ str_lower(Group(s, Search(s, CallMatchAt))) \in callStoplist

\* the span of the name the Meeting pattern captures in s is stoplisted
MeetingCapturesStopword(s) ==
  /\ MeetingGate(str_lower(s))
  /\ Search(s, MeetingMatchAt) # None
  /\ str_lower(Group(s, Search(s, MeetingMatchAt))) \in meetingStoplist

\* the contact of a Call or Meeting action
Contact(a) == (CHOOSE kv \in a.metadata : kv[1] = "contact")[2]

\* the candidates contributed by sentence s
From(s) == {k \in 1..Len(actions) : actions[k].description = s}

\* C8: a stoplisted name never becomes the contact of a Call or Meeting
\* action; the sentence goes on to the following rules and yields an action
\* only if one of them extracts its own pattern; "Call the doctor tomorrow."
\* yields no action at all.
C8_StoplistDeclines ==
  /\ \A k \in 1..Len(actions) :
       /\ actions[k].action_type = "call" => str_lower(Contact(actions[k])) \notin callStoplist
       /\ actions[k].action_type = "meeting" =>
            str_lower(Contact(actions[k])) \notin meetingStoplist
  /\ pc \in {"sentences", "dedup", "done"} =>
       \A k \in 1..(i - 1) :
         /\ (CallCapturesStopword(Offered(k)) /\ ~Succeeds(1, Offered(k))) =>
              \A m \in From(Offered(k)) :
                /\ actions[m].action_type \in {"meeting", "task"}
                /\ Succeeds(3, Offered(k)) \/ Succeeds(4, Offered(k))
         /\ (MeetingCapturesStopword(Offered(k))
               /\ ~Succeeds(1, Offered(k)) /\ ~Succeeds(2, Offered(k))) =>
              \A m \in From(Offered(k)) :
                actions[m].action_type = "task" /\ Succeeds(4, Offered(k))
  /\ (pc = "done" /\ transcript = StoplistExample) => result = <<>>

\* "call The boss ..." was declined by Call and became a Meeting, and
\* "schedule My review ..." was declined by Meeting and became a Task
C8_Witness ==
  /\ pc = "done"
  /\ \E k \in 1..Len(sentences) :
       /\ CallCapturesStopword(Offered(k))
       /\ \E m \in From(Offered(k)) : actions[m].action_type = "meeting"
  /\ \E k \in 1..Len(sentences) :
       /\ MeetingCapturesStopword(Offered(k))
       /\ \E m \in From(Offered(k)) : actions[m].action_type = "task"

\* the positions in s just after an occurrence of a trigger, in any letter case
TriggerEnds(s) ==
  {e \in 1..(Len(s) + 1) :
     \E t \in 1..Len(taskTriggers) :
       /\ e - Len(taskTriggers[t]) >= 1
       /\ str_lower(Slice(s, e - Len(taskTriggers[t]), e)) = taskTriggers[t]}

\* the starts of the texts in s that follow a trigger and at least one
\* whitespace character, run to the end of the sentence and are 10 to 60
\* characters long
TaskWindows(s) ==
  LET Ends == TriggerEnds(s)
  IN {st \in 1..Len(s) :
        /\ Len(s) - st + 1 \in TaskMin..TaskMax
        /\ \E e \in Ends : e < st /\ \A w \in e..(st - 1) : s[w] \in WS}

\* the sentence reaches the Task rule
ReachesTask(s) == ~Succeeds(1, s) /\ ~Succeeds(2, s) /\ ~Succeeds(3, s)

\* C9: a Task action exists only when the text after a trigger up to the end
\* of the sentence is 10 to 60 characters long; its title is that text trimmed
\* and cut to 50 characters (non-empty, at most 50), its description is the
\* sentence and its metadata is empty; with no such text the sentence that
\* reaches the Task rule produces no action.
C9_TaskWindowAndTitle ==
  /\ \A k \in 1..Len(actions) :
       actions[k].action_type = "task" =>
         /\ actions[k].title # <<>>
         /\ Len(actions[k].title) <= TitleMax
         /\ actions[k].metadata = {}
         /\ \E n \in 1..(i - 1) : Offered(n) = actions[k].description
         /\ \E st \in TaskWindows(actions[k].description) :
              actions[k].title =
                Take(strip(Slice(actions[k].description, st,
                                 Len(actions[k].description) + 1)), TitleMax)
  /\ pc \in {"sentences", "dedup", "done"} =>
       \A n \in 1..(i - 1) :
         (ReachesTask(Offered(n)) /\ TaskWindows(Offered(n)) = {}) => From(Offered(n)) = {}

\* a text of more than 50 characters was cut to a 50-character title, and a
\* sentence whose text after the trigger is too long produced nothing
C9_Witness ==
  /\ pc = "done"
  /\ \E k \in 1..Len(result) :
       /\ result[k].action_type = "task"
       /\ Len(result[k].title) = TitleMax
       /\ \E st \in TaskWindows(result[k].description) :
            Len(result[k].description) - st + 1 > TitleMax
  /\ \E n \in 1..Len(sentences) :
       /\ TaskGate(str_lower(Offered(n)))
       /\ ReachesTask(Offered(n))
       /\ TaskWindows(Offered(n)) = {}
       /\ From(Offered(n)) = {}

HasTerminator(s) == \E k \in 1..Len(s) : s[k] \in Terminators

\* C10: no sentence offered to a rule and no description of an action contains
\* '.', '!' or '?', and extract_actions returns no action of type email.
C10_NoTerminatorNoEmail ==
  /\ \A k \in 1..Len(sentences) : ~HasTerminator(sentences[k])
  /\ \A k \in 1..Len(actions) :
       ~HasTerminator(actions[k].description) /\ actions[k].action_type # "email"
  /\ \A k \in 1..Len(result) :
       ~HasTerminator(result[k].description) /\ result[k].action_type # "email"

\* the transcript holds the keyword and a well-formed address, and extraction
\* finished without an Email action
C10_Witness ==
  /\ pc = "done"
  /\ EmailGate(str_lower(transcript))
  /\ Search(transcript, EmailMatchAt) # None
  /\ \A k \in 1..Len(result) : result[k].action_type # "email"
====
